---- MODULE Spec2Model ----
(***************************************************************************)
(* Blog-post canister (src/src/index.ts).  The file holds two copies of    *)
(* the module: the first (lines 1-143) defines addPost, likePost,          *)
(* updatePost and deletePost with the SecureUUIDGenerator and ownership    *)
(* tests; the later one (lines 145-312) defines them again with a bare     *)
(* uuidv4() and no ownership test, next to getPosts, getPost and           *)
(* commentOnPost.  A canister serves one definition of each name: `served` *)
(* fixes which copy's definitions of the four duplicated names are the     *)
(* exported ones.  postStorage.get returns an Opt (the later copy matches  *)
(* on Some/None); the first copy tests the result against null and reads   *)
(* .owner off it.  Each handler is one atomic action.                      *)
(***************************************************************************)
EXTENDS Integers, Sequences, FiniteSets, TLC

\* ---------------------------------------------------------------- bounds
MaxCalls == 3                  \* update calls handled in one behaviour
NumUUIDs == 2                  \* size of the id space uuidv4() draws from

\* ---------------------------------------------------------------- inputs
UUIDs   == 1..NumUUIDs         \* values uuidv4() can return (abstract ids)
Callers == {1, 2}              \* principals the host can inject as ic.caller()
Payloads ==
    { [title |-> "a", body |-> "a", imageURL |-> "a"],
      [title |-> "",  body |-> "a", imageURL |-> "a"],
      [title |-> "a", body |-> "",  imageURL |-> "a"],
      [title |-> "a", body |-> "a", imageURL |-> ""] }
CommentTexts == {"a", "b"}

VARIABLES
    served,           \* which copy's addPost/likePost/updatePost/deletePost is exported
    postStorage,      \* StableBTreeMap<string, Post>: function id -> Post
    generatedUUIDs,   \* SecureUUIDGenerator.generatedUUIDs
    now,              \* the value ic.time() last returned
    last,             \* the most recent request and its Result
    nCalls,           \* update calls handled so far
    returnedIds,      \* history: ids returned by successful addPost calls
    deletedIds,       \* history: ids removed by a successful deletePost
    liveCount         \* history: successful addPost minus successful deletePost

vars == <<served, postStorage, generatedUUIDs, now, last, nCalls,
          returnedIds, deletedIds, liveCount>>

\* ------------------------------------------------------------- helpers
\* Principal.toString(): the textual form of a principal (injective).
PrincipalToString(p) == IF p = 1 THEN "aaaaa-aa" ELSE IF p = 2 THEN "2vxsx-fae" ELSE "rrkah-fqaaa"

\* Opt<T>: the object {None: null} or {Some: value}
OptNone == [None |-> TRUE]
OptSome(v) == [Some |-> v]

\* JavaScript null
Null == [null |-> TRUE]

\* an uncaught TypeError: the call traps, its state changes are discarded and
\* the caller gets no Result
Thrown == [ok |-> FALSE, err |-> "TypeError", val |-> <<>>]

\* Result.Ok / Result.Err; val holds the returned post(s)
ResultOk(v) == [ok |-> TRUE, err |-> "", val |-> v]
ResultErr(e) == [ok |-> FALSE, err |-> e, val |-> <<>>]

\* the validation with the imageURL test left out
MissingFields_NoImage(payload) ==
    payload.title = "" \/ payload.body = ""

\* `!title || !body || !imageURL`: an empty string is falsy
MissingFields(payload) ==
    payload.title = "" \/ payload.body = "" \/ payload.imageURL = ""

\* the Post object literal built by addPost
NewPost(c, u, t, payload) ==
    [ owner |-> c, id |-> u, likes |-> 0, comments |-> <<>>,
      created_at |-> t, updated_at |-> OptNone,
      title |-> payload.title, body |-> payload.body,
      imageURL |-> payload.imageURL ]

\* postStorage.insert(k, v): upsert
Insert(m, k, v) == [x \in (DOMAIN m) \cup {k} |-> IF x = k THEN v ELSE m[x]]

\* postStorage.get(k): Opt<Post>
Get(m, k) == IF k \in DOMAIN m THEN OptSome(m[k]) ELSE OptNone

\* postStorage.remove(k)
Remove(m, k) == [x \in (DOMAIN m) \ {k} |-> m[x]]

\* postStorage.values(): the values in key order
RECURSIVE ValuesFrom(_, _)
ValuesFrom(m, keys) ==
    IF keys = {} THEN <<>>
    ELSE LET k == CHOOSE x \in keys : \A y \in keys : x <= y
         IN  <<m[k]>> \o ValuesFrom(m, keys \ {k})
Values(m) == ValuesFrom(m, DOMAIN m)

\* {...post, likes: post.likes + 1, updated_at: Opt.Some(ic.time())}
Liked(post, t) == [post EXCEPT !.likes = post.likes + 1, !.updated_at = OptSome(t)]

\* {...post, ...payload, updated_at: Opt.Some(ic.time())}
Updated(post, payload, t) ==
    [post EXCEPT !.title = payload.title, !.body = payload.body,
                 !.imageURL = payload.imageURL, !.updated_at = OptSome(t)]

\* {...post, comments: [...post.comments, comment]}
Commented(post, comment) == [post EXCEPT !.comments = Append(post.comments, comment)]

Request(op, c, id, payload, comment, res) ==
    [op |-> op, caller |-> c, id |-> id, payload |-> payload,
     comment |-> comment, res |-> res]

NoPayload == [title |-> "", body |-> "", imageURL |-> ""]

\* ---------------------------------------------------------------- Init
Init ==
    /\ served \in {"first", "later"}
    /\ postStorage = <<>>
    /\ generatedUUIDs = {}
    /\ now = 0
    /\ last = Request("init", 0, 0, NoPayload, "", ResultErr(""))
    /\ nCalls = 0
    /\ returnedIds = {}
    /\ deletedIds = {}
    /\ liveCount = 0

\* an $update call
Called ==
    /\ nCalls < MaxCalls
    /\ nCalls' = nCalls + 1

\* ic.time() returns t, never earlier than what it returned before
Time(t) ==
    /\ t \in {now, now + 1}
    /\ now' = t

\* a $query call
Queried == UNCHANGED <<now, nCalls>>

\* ------------------------------------------------- first set of handlers
\* addPost, lines 52-76: id from secureUUIDGenerator.generateUUID(), which
\* draws uuidv4() until the value is not in generatedUUIDs (u is that value).
addPost1(c, payload, t, u) ==
    /\ served = "first"
    /\ Called
    /\ IF MissingFields(payload)
       THEN /\ last' = Request("addPost", c, 0, payload, "",
                               ResultErr("Missing required fields"))
            /\ UNCHANGED <<postStorage, generatedUUIDs, now, returnedIds, liveCount>>
       ELSE /\ u \notin generatedUUIDs
            /\ generatedUUIDs' = generatedUUIDs \cup {u}
            /\ Time(t)
            /\ postStorage' = Insert(postStorage, u, NewPost(c, u, t, payload))
            /\ last' = Request("addPost", c, 0, payload, "",
                               ResultOk(<<NewPost(c, u, t, payload)>>))
            /\ returnedIds' = returnedIds \cup {u}
            /\ liveCount' = liveCount + 1
    /\ UNCHANGED <<served, deletedIds>>

\* likePost, lines 78-99: `post` is the Opt that get() returns, never null,
\* and has no owner field, so post.owner.toString() throws
likePost1(c, id, t) ==
    /\ served = "first"
    /\ Called
    /\ LET post == Get(postStorage, id) IN
       IF post = Null
       THEN /\ last' = Request("likePost", c, id, NoPayload, "",
                               ResultErr("Couldn't update post with id. Post not found"))
            /\ UNCHANGED <<postStorage, now>>
       ELSE IF "owner" \notin DOMAIN post
       THEN /\ last' = Request("likePost", c, id, NoPayload, "", Thrown)
            /\ UNCHANGED <<postStorage, now>>
       ELSE IF PrincipalToString(c) = PrincipalToString(post.owner)
       THEN /\ last' = Request("likePost", c, id, NoPayload, "",
                               ResultErr("Owners cannot like their own post"))
            /\ UNCHANGED <<postStorage, now>>
       ELSE /\ Time(t)
            /\ postStorage' = Insert(postStorage, post.id, Liked(post, t))
            /\ last' = Request("likePost", c, id, NoPayload, "",
                               ResultOk(<<Liked(post, t)>>))
    /\ UNCHANGED <<served, generatedUUIDs, returnedIds, deletedIds, liveCount>>

\* updatePost, lines 103-124: throws at post.owner.toString() likewise
updatePost1(c, id, payload, t) ==
    /\ served = "first"
    /\ Called
    /\ LET post == Get(postStorage, id) IN
       IF post = Null
       THEN /\ last' = Request("updatePost", c, id, payload, "",
                               ResultErr("Couldn't update post with id. Post not found"))
            /\ UNCHANGED <<postStorage, now>>
       ELSE IF "owner" \notin DOMAIN post
       THEN /\ last' = Request("updatePost", c, id, payload, "", Thrown)
            /\ UNCHANGED <<postStorage, now>>
       ELSE IF PrincipalToString(c) # PrincipalToString(post.owner)
       THEN /\ last' = Request("updatePost", c, id, payload, "",
                               ResultErr("Only the owner can update the post"))
            /\ UNCHANGED <<postStorage, now>>
       ELSE /\ Time(t)
            /\ postStorage' = Insert(postStorage, post.id, Updated(post, payload, t))
            /\ last' = Request("updatePost", c, id, payload, "",
                               ResultOk(<<Updated(post, payload, t)>>))
    /\ UNCHANGED <<served, generatedUUIDs, returnedIds, deletedIds, liveCount>>

\* deletePost, lines 128-143: throws at post.owner.toString() likewise
deletePost1(c, id) ==
    /\ served = "first"
    /\ Called
    /\ LET post == Get(postStorage, id) IN
       IF post = Null
       THEN /\ last' = Request("deletePost", c, id, NoPayload, "",
                               ResultErr("Couldn't delete post with id. Post not found"))
            /\ UNCHANGED <<postStorage, deletedIds, liveCount>>
       ELSE IF "owner" \notin DOMAIN post
       THEN /\ last' = Request("deletePost", c, id, NoPayload, "", Thrown)
            /\ UNCHANGED <<postStorage, deletedIds, liveCount>>
       ELSE IF PrincipalToString(c) # PrincipalToString(post.owner)
       THEN /\ last' = Request("deletePost", c, id, NoPayload, "",
                               ResultErr("Only the owner can delete the post"))
            /\ UNCHANGED <<postStorage, deletedIds, liveCount>>
       ELSE /\ postStorage' = Remove(postStorage, id)
            /\ last' = Request("deletePost", c, id, NoPayload, "", ResultOk(<<post>>))
            /\ deletedIds' = deletedIds \cup {id}
            /\ liveCount' = liveCount - 1
    /\ UNCHANGED <<served, generatedUUIDs, now, returnedIds>>

\* ------------------------------------------------- later set of handlers
\* getPosts, lines 189-193
getPosts ==
    /\ Queried
    /\ last' = Request("getPosts", 0, 0, NoPayload, "", ResultOk(Values(postStorage)))
    /\ UNCHANGED <<served, postStorage, generatedUUIDs, returnedIds, deletedIds, liveCount>>

\* getPost, lines 196-203
getPost(id) ==
    /\ Queried
    /\ last' = Request("getPost", 0, id, NoPayload, "",
                       IF id \in DOMAIN postStorage
                       THEN ResultOk(<<postStorage[id]>>)
                       ELSE ResultErr("a post with id not found"))
    /\ UNCHANGED <<served, postStorage, generatedUUIDs, returnedIds, deletedIds, liveCount>>

\* addPost, lines 206-231: id is uuidv4(), any value of the id space
addPost2(c, payload, t, u) ==
    /\ served = "later"
    /\ Called
    /\ IF MissingFields(payload)
       THEN /\ last' = Request("addPost", c, 0, payload, "",
                               ResultErr("Missing required fields"))
            /\ UNCHANGED <<postStorage, now, returnedIds, liveCount>>
       ELSE /\ Time(t)
            /\ postStorage' = Insert(postStorage, u, NewPost(c, u, t, payload))
            /\ last' = Request("addPost", c, 0, payload, "",
                               ResultOk(<<NewPost(c, u, t, payload)>>))
            /\ returnedIds' = returnedIds \cup {u}
            /\ liveCount' = liveCount + 1
    /\ UNCHANGED <<served, generatedUUIDs, deletedIds>>

\* commentOnPost, lines 234-253
commentOnPost(c, id, comment) ==
    /\ Called
    /\ IF id \in DOMAIN postStorage
       THEN /\ postStorage' = Insert(postStorage, id, Commented(postStorage[id], comment))
            /\ last' = Request("commentOnPost", c, id, NoPayload, comment,
                               ResultOk(<<Commented(postStorage[id], comment)>>))
       ELSE /\ last' = Request("commentOnPost", c, id, NoPayload, comment,
                               ResultErr("Post not found."))
            /\ UNCHANGED postStorage
    /\ UNCHANGED <<served, generatedUUIDs, now, returnedIds, deletedIds, liveCount>>

\* likePost, lines 260-276
likePost2(c, id, t) ==
    /\ served = "later"
    /\ Called
    /\ IF id \in DOMAIN postStorage
       THEN IF PrincipalToString(postStorage[id].owner) = PrincipalToString(c)
            THEN /\ last' = Request("likePost", c, id, NoPayload, "",
                                    ResultErr("Owners cannot like their post"))
                 /\ UNCHANGED <<postStorage, now>>
            ELSE /\ Time(t)
                 /\ postStorage' = Insert(postStorage, postStorage[id].id,
                                          Liked(postStorage[id], t))
                 /\ last' = Request("likePost", c, id, NoPayload, "",
                                    ResultOk(<<Liked(postStorage[id], t)>>))
       ELSE /\ last' = Request("likePost", c, id, NoPayload, "",
                               ResultErr("couldn't update a post with id. post not found"))
            /\ UNCHANGED <<postStorage, now>>
    /\ UNCHANGED <<served, generatedUUIDs, returnedIds, deletedIds, liveCount>>

\* updatePost, lines 278-289: no ownership check
updatePost2(c, id, payload, t) ==
    /\ served = "later"
    /\ Called
    /\ IF id \in DOMAIN postStorage
       THEN /\ Time(t)
            /\ postStorage' = Insert(postStorage, postStorage[id].id,
                                     Updated(postStorage[id], payload, t))
            /\ last' = Request("updatePost", c, id, payload, "",
                               ResultOk(<<Updated(postStorage[id], payload, t)>>))
       ELSE /\ last' = Request("updatePost", c, id, payload, "",
                               ResultErr("couldn't update a post with id. post not found"))
            /\ UNCHANGED <<postStorage, now>>
    /\ UNCHANGED <<served, generatedUUIDs, returnedIds, deletedIds, liveCount>>

\* deletePost, lines 292-299: no ownership check
deletePost2(c, id) ==
    /\ served = "later"
    /\ Called
    /\ IF id \in DOMAIN postStorage
       THEN /\ postStorage' = Remove(postStorage, id)
            /\ last' = Request("deletePost", c, id, NoPayload, "",
                               ResultOk(<<postStorage[id]>>))
            /\ deletedIds' = deletedIds \cup {id}
            /\ liveCount' = liveCount - 1
       ELSE /\ last' = Request("deletePost", c, id, NoPayload, "",
                               ResultErr("couldn't delete a post with id. post not found."))
            /\ UNCHANGED <<postStorage, deletedIds, liveCount>>
    /\ UNCHANGED <<served, generatedUUIDs, now, returnedIds>>

Times == {now, now + 1}

Next ==
    \/ \E c \in Callers, p \in Payloads, t \in Times, u \in UUIDs : addPost1(c, p, t, u)
    \/ \E c \in Callers, id \in UUIDs, t \in Times : likePost1(c, id, t)
    \/ \E c \in Callers, id \in UUIDs, p \in Payloads, t \in Times : updatePost1(c, id, p, t)
    \/ \E c \in Callers, id \in UUIDs : deletePost1(c, id)
    \/ getPosts
    \/ \E id \in UUIDs : getPost(id)
    \/ \E c \in Callers, p \in Payloads, t \in Times, u \in UUIDs : addPost2(c, p, t, u)
    \/ \E c \in Callers, id \in UUIDs, x \in CommentTexts : commentOnPost(c, id, x)
    \/ \E c \in Callers, id \in UUIDs, t \in Times : likePost2(c, id, t)
    \/ \E c \in Callers, id \in UUIDs, p \in Payloads, t \in Times : updatePost2(c, id, p, t)
    \/ \E c \in Callers, id \in UUIDs : deletePost2(c, id)

Spec == Init /\ [][Next]_vars

\* ------------------------------------------------------------ properties
\* the error classes of the specification, by the messages the code returns
IsInvalidInput(r) == ~r.ok /\ r.err = "Missing required fields"
IsNotFound(r) ==
    ~r.ok /\ r.err \in { "Couldn't update post with id. Post not found",
                         "Couldn't delete post with id. Post not found",
                         "a post with id not found",
                         "Post not found.",
                         "couldn't update a post with id. post not found",
                         "couldn't delete a post with id. post not found." }
IsUnauthorized(r) ==
    ~r.ok /\ r.err \in { "Only the owner can update the post",
                         "Only the owner can delete the post" }
IsForbidden(r) ==
    ~r.ok /\ r.err \in { "Owners cannot like their own post",
                         "Owners cannot like their post" }

IsPrefix(a, b) == Len(a) <= Len(b) /\ SubSeq(b, 1, Len(a)) = a

\* the step handled an update call op; last' is that request and its result
UpdateCall(op) == nCalls' = nCalls + 1 /\ last'.op = op

\* ids stored before and after a step
Kept == DOMAIN postStorage \cap DOMAIN postStorage'

\* C1: on a stored post, updatePost and deletePost by a caller other than the
\* owner return Unauthorized and leave the store unchanged; by the owner they
\* succeed, and deletePost removes the post.
C1_Step ==
    \A id \in DOMAIN postStorage :
        ((UpdateCall("updatePost") \/ UpdateCall("deletePost")) /\ last'.id = id) =>
            IF last'.caller # postStorage[id].owner
            THEN IsUnauthorized(last'.res) /\ postStorage' = postStorage
            ELSE /\ last'.res.ok
                 /\ (last'.op = "deletePost" => id \notin DOMAIN postStorage')
C1_OwnerOnlyUpdateDelete == [][C1_Step]_vars

\* C2: likePost by a non-owner adds exactly 1 to likes and sets updated_at,
\* changing nothing else; by the owner it returns Forbidden and changes
\* nothing; likes of a stored post is >= 0 and never decreases.
C2_Step ==
    /\ \A id \in DOMAIN postStorage :
        (UpdateCall("likePost") /\ last'.id = id) =>
            IF last'.caller # postStorage[id].owner
            THEN /\ last'.res.ok
                 /\ postStorage'[id].likes = postStorage[id].likes + 1
                 /\ postStorage'[id].updated_at # OptNone
                 /\ [postStorage'[id] EXCEPT !.likes = 0, !.updated_at = OptNone]
                      = [postStorage[id] EXCEPT !.likes = 0, !.updated_at = OptNone]
                 /\ \A k \in DOMAIN postStorage \ {id} : postStorage'[k] = postStorage[k]
            ELSE IsForbidden(last'.res) /\ postStorage' = postStorage
    /\ \A id \in DOMAIN postStorage' : postStorage'[id].likes >= 0
    /\ \A id \in Kept : postStorage'[id].likes >= postStorage[id].likes
C2_LikesOnlyGrow == [][C2_Step]_vars

\* C3: a successful addPost returns an id no earlier successful addPost
\* returned (deleted posts included), so it overwrites no stored post.
C3_Step ==
    (UpdateCall("addPost") /\ last'.res.ok) =>
        /\ last'.res.val[1].id \notin returnedIds
        /\ last'.res.val[1].id \notin DOMAIN postStorage
C3_IdsNeverReused == [][C3_Step]_vars

\* C4: addPost with title, body or imageURL empty returns InvalidInput,
\* leaves the store unchanged and consumes no identifier.
C4_Step ==
    (UpdateCall("addPost") /\ \E f \in {"title", "body", "imageURL"} : last'.payload[f] = "") =>
        /\ IsInvalidInput(last'.res)
        /\ postStorage' = postStorage
        /\ generatedUUIDs' = generatedUUIDs
        /\ returnedIds' = returnedIds
C4_InvalidAddStoresNothing == [][C4_Step]_vars

\* C4 witness: an addPost with an empty imageURL was refused while a post was stored
C4_Witness ==
    /\ last.op = "addPost"
    /\ last.payload.imageURL = ""
    /\ IsInvalidInput(last.res)
    /\ postStorage # <<>>

\* C5: commentOnPost on a stored post succeeds for every caller and appends
\* the text at the end; comments of a stored post only grow, each value
\* having the earlier one as a prefix.
C5_Step ==
    /\ \A id \in DOMAIN postStorage :
        (UpdateCall("commentOnPost") /\ last'.id = id) =>
            /\ last'.res.ok
            /\ postStorage'[id].comments = Append(postStorage[id].comments, last'.comment)
    /\ \A id \in Kept : IsPrefix(postStorage[id].comments, postStorage'[id].comments)
C5_CommentsAppendOnly == [][C5_Step]_vars

\* C6: getPosts never fails and returns exactly the posts created by a
\* successful addPost and not removed by a successful deletePost, each in
\* its latest stored value.
C6_GetPostsReturnsLivePosts ==
    last.op = "getPosts" =>
        /\ last.res.ok
        /\ Len(last.res.val) = liveCount
        /\ {last.res.val[i] : i \in 1..Len(last.res.val)}
             = {postStorage[k] : k \in DOMAIN postStorage}

\* C7: updated_at is unset at creation, set after every successful like or
\* update, and never returns to unset.
C7_Step ==
    /\ (UpdateCall("addPost") /\ last'.res.ok) =>
           postStorage'[last'.res.val[1].id].updated_at = OptNone
    /\ ((UpdateCall("likePost") \/ UpdateCall("updatePost")) /\ last'.res.ok) =>
           postStorage'[last'.id].updated_at # OptNone
    /\ \A id \in Kept :
           postStorage[id].updated_at # OptNone => postStorage'[id].updated_at # OptNone
C7_UpdatedAtStaysSet == [][C7_Step]_vars

\* C8: the owner, id and created_at of the post stored under an id never
\* change, and the store key equals the post's id field.
C8_Step ==
    /\ \A id \in Kept :
           /\ postStorage'[id].owner = postStorage[id].owner
           /\ postStorage'[id].id = postStorage[id].id
           /\ postStorage'[id].created_at = postStorage[id].created_at
    /\ \A k \in DOMAIN postStorage' : postStorage'[k].id = k
C8_OwnerImmutable == [][C8_Step]_vars

\* C9: a successful deletePost returns the value stored just before and
\* removes it; every later getPost, updatePost, likePost, commentOnPost and
\* deletePost on that id returns NotFound.
C9_Step ==
    /\ (UpdateCall("deletePost") /\ last'.res.ok) =>
           /\ last'.res.val = <<postStorage[last'.id]>>
           /\ last'.id \notin DOMAIN postStorage'
    /\ (/\ last'.op \in {"getPost", "updatePost", "likePost", "commentOnPost", "deletePost"}
        /\ last'.id \in deletedIds) => IsNotFound(last'.res)
C9_DeletedStaysDeleted == [][C9_Step]_vars

\* C10: addPost with a valid payload succeeds with owner = caller, likes = 0,
\* no comments and updated_at unset; a getPost on the returned id right
\* after returns the same post; previously stored posts are unchanged.
C10_Step ==
    /\ (UpdateCall("addPost") /\ ~MissingFields(last'.payload)) =>
           /\ last'.res.ok
           /\ last'.res.val[1].owner = last'.caller
           /\ last'.res.val[1].likes = 0
           /\ last'.res.val[1].comments = <<>>
           /\ last'.res.val[1].updated_at = OptNone
           /\ last'.res.val[1].title = last'.payload.title
           /\ last'.res.val[1].body = last'.payload.body
           /\ last'.res.val[1].imageURL = last'.payload.imageURL
           /\ \A k \in DOMAIN postStorage : postStorage'[k] = postStorage[k]
    /\ (/\ last.op = "addPost" /\ last.res.ok
        /\ last'.op = "getPost" /\ last'.id = last.res.val[1].id) =>
           last'.res = ResultOk(last.res.val)
C10_AddThenGet == [][C10_Step]_vars

====
